---- MODULE Spec2Model ----
(***************************************************************************)
(* Model of src/lm_env2.py: TextHistory (append-only dialogue history with *)
(* a fixed-width observation and a role mask) and TextEnvironment (the     *)
(* reset/step state machine that owns one TextHistory).                    *)
(*                                                                         *)
(* A Python str is a sequence of one-character strings, a 1-d token tensor *)
(* is a sequence of integers, a raised exception is a result with          *)
(* ok = FALSE.  The tokenizer, the language model and the reward function  *)
(* are external services: their results are inputs chosen with \E.         *)
(***************************************************************************)
EXTENDS Integers, Sequences, FiniteSets, TLC

\* ------------------------------------------------------------------ bounds
\* No more than MaxSegs segments are recorded in one history.
MaxSegs == 4
\* max_turns is drawn from 1..MaxTurnsBound at construction.
MaxTurnsBound == 2
\* Longest text / token run handed to the TextHistory constructor.
MaxNewText == 3
MaxNewToks == 5

\* ------------------------------------------------------- program constants
obs_dim == 8

\* --------------------------------------------------------------- helpers
Min(a, b) == IF a < b THEN a ELSE b

\* s[-n:] for 0 < n <= len(s)
LastN(s, n) == SubSeq(s, Len(s) - n + 1, Len(s))
\* s[:n] for 0 <= n <= len(s)
FirstN(s, n) == SubSeq(s, 1, n)

\* s[a:b] on a str, 0 <= a <= b (Python clamps b to len(s))
Slice(s, a, b) == SubSeq(s, a + 1, Min(b, Len(s)))

Zeros(n) == [i \in 1..n |-> 0]

\* torch.nn.functional.pad(obs, (0, n)): n zeros on the right
Pad(s, n) == s \o Zeros(n)

\* mask[a:b] = v on a 1-d tensor: positions a..b-1 (0-based) that exist
SliceAssign(mask, a, b, v) ==
    [p \in 1..Len(mask) |-> IF a <= p - 1 /\ p - 1 < b THEN v ELSE mask[p]]

\* ---------------------------------------------------------- TextHistory
Unset == "unset"
PyBool(b) == IF b THEN "True" ELSE "False"

\* The object state right after the early return of __init__ for text == "":
\* text, text_spans and tokens are set, ``completed`` was never assigned.
EmptyHistory ==
    [text |-> <<>>, text_spans |-> <<>>, tokens |-> <<>>,
     tokens_none |-> FALSE, completed |-> Unset]

\* append_segment without the truncation to obs_dim.
append_segment_notrunc(h, text, tokens) ==
    IF Len(text) = 0 \/ Len(tokens) = 0
    THEN [ok |-> FALSE, err |-> "ValueError", h |-> h]
    ELSE [ok |-> TRUE, err |-> "none",
          h |-> [h EXCEPT !.text = h.text \o text,
                          !.text_spans = Append(h.text_spans,
                                 <<Len(h.text), Len(h.text) + Len(text)>>),
                          !.tokens = h.tokens \o tokens]]

\* append_segment keeping the oldest obs_dim tokens instead of the newest.
append_segment_first(h, text, tokens) ==
    IF Len(text) = 0 \/ Len(tokens) = 0
    THEN [ok |-> FALSE, err |-> "ValueError", h |-> h]
    ELSE LET original_text_length == Len(h.text)
             newtext == h.text \o text
             cat == h.tokens \o tokens
         IN [ok |-> TRUE, err |-> "none",
             h |-> [h EXCEPT !.text = newtext,
                             !.text_spans = Append(h.text_spans,
                                    <<original_text_length, Len(newtext)>>),
                             !.tokens = IF Len(cat) > obs_dim
                                        THEN FirstN(cat, obs_dim) ELSE cat]]

\* append_segment rejecting only an empty text.
append_segment_textonly(h, text, tokens) ==
    IF Len(text) = 0
    THEN [ok |-> FALSE, err |-> "ValueError", h |-> h]
    ELSE LET original_text_length == Len(h.text)
             newtext == h.text \o text
             cat == h.tokens \o tokens
         IN [ok |-> TRUE, err |-> "none",
             h |-> [h EXCEPT !.text = newtext,
                             !.text_spans = Append(h.text_spans,
                                    <<original_text_length, Len(newtext)>>),
                             !.tokens = IF Len(cat) > obs_dim
                                        THEN LastN(cat, obs_dim) ELSE cat]]

\* append_segment recording the span end as len(text) of the new segment.
append_segment_relspan(h, text, tokens) ==
    IF Len(text) = 0 \/ Len(tokens) = 0
    THEN [ok |-> FALSE, err |-> "ValueError", h |-> h]
    ELSE LET original_text_length == Len(h.text)
             newtext == h.text \o text
             cat == h.tokens \o tokens
         IN [ok |-> TRUE, err |-> "none",
             h |-> [h EXCEPT !.text = newtext,
                             !.text_spans = Append(h.text_spans,
                                    <<original_text_length, Len(text)>>),
                             !.tokens = IF Len(cat) > obs_dim
                                        THEN LastN(cat, obs_dim) ELSE cat]]

\* TextHistory.append_segment(text, tokens) on history h (tokens not None).
append_segment(h, text, tokens) ==
    IF Len(text) = 0 \/ Len(tokens) = 0
    THEN [ok |-> FALSE, err |-> "ValueError", h |-> h]
    ELSE LET original_text_length == Len(h.text)
             newtext == h.text \o text
             cat == h.tokens \o tokens
         IN [ok |-> TRUE, err |-> "none",
             h |-> [h EXCEPT !.text = newtext,
                             !.text_spans = Append(h.text_spans,
                                    <<original_text_length, Len(newtext)>>),
                             !.tokens = IF Len(cat) > obs_dim
                                        THEN LastN(cat, obs_dim) ELSE cat]]

\* TextHistory(text, tokens); tokens_none says that None was passed.
\* For a non-empty text the fields are first set to the arguments and then
\* append_segment(text, tokens) runs on the object so initialised;
\* len(None) inside append_segment raises TypeError.
TextHistory(text, tokens, tokens_none) ==
    IF Len(text) = 0
    THEN [ok |-> TRUE, err |-> "none", h |-> EmptyHistory]
    ELSE IF tokens_none
    THEN [ok |-> FALSE, err |-> "TypeError", h |-> EmptyHistory]
    ELSE LET self == [text |-> text, text_spans |-> <<>>, tokens |-> tokens,
                      tokens_none |-> FALSE, completed |-> PyBool(FALSE)]
             a == append_segment(self, text, tokens)
         IN IF a.ok THEN a ELSE [a EXCEPT !.h = EmptyHistory]

RECURSIVE mask_loop(_, _, _)
\* The for loop of to_obs from index i (0-based) on.
mask_loop(spans, i, mask) ==
    IF i >= Len(spans) THEN mask
    ELSE LET sli == spans[i + 1]
         IN mask_loop(spans, i + 1,
                      SliceAssign(mask, sli[1], sli[2],
                                  IF i % 2 = 0 THEN 1 ELSE 2))

\* TextHistory.to_obs(): text_spans is always a list, so (obs, mask) is
\* returned.  Token ids are far below 2^24, so .float() keeps their value.
to_obs(h) ==
    LET obs == IF Len(h.tokens) < obs_dim
               THEN Pad(h.tokens, obs_dim - Len(h.tokens)) ELSE h.tokens
    IN [obs |-> obs, mask |-> mask_loop(h.text_spans, 0, Zeros(Len(obs)))]

\* last_text_segment returning "" when there is no segment.
last_text_segment_empty(h) ==
    IF Len(h.text_spans) = 0
    THEN [ok |-> TRUE, err |-> "none", val |-> <<>>]
    ELSE LET sp == h.text_spans[Len(h.text_spans)]
         IN [ok |-> TRUE, err |-> "none", val |-> Slice(h.text, sp[1], sp[2])]

\* last_text_segment reading text_spans[0] instead of text_spans[-1].
last_text_segment_first(h) ==
    IF Len(h.text_spans) = 0
    THEN [ok |-> FALSE, err |-> "IndexError", val |-> <<>>]
    ELSE LET sp == h.text_spans[1]
         IN [ok |-> TRUE, err |-> "none", val |-> Slice(h.text, sp[1], sp[2])]

\* TextHistory.last_text_segment: text_spans[-1] raises IndexError on an
\* empty list.
last_text_segment(h) ==
    IF Len(h.text_spans) = 0
    THEN [ok |-> FALSE, err |-> "IndexError", val |-> <<>>]
    ELSE LET sp == h.text_spans[Len(h.text_spans)]
         IN [ok |-> TRUE, err |-> "none", val |-> Slice(h.text, sp[1], sp[2])]

\* ------------------------------------------------------ TextEnvironment
\* self.history, a TextHistory
VARIABLE history
\* self.turn
VARIABLE turn
\* self.max_turns
VARIABLE max_turns
\* the last call on the environment or its history, and its result
VARIABLE ret
\* log: the (text, tokens) of every accepted append_segment on self.history
\* since the history was created
VARIABLE segs
\* log: number of step() calls that returned since reset()
VARIABLE nsteps
\* the last direct TextHistory(text, tokens) call and its result
VARIABLE built
\* log: a step() has returned done == True since reset()
VARIABLE done_seen
\* log: the latest stage past the query append at which a step() raised
\* since reset(): "none", "score", or "generate" (generation raised or its
\* continuation was rejected), "generate" overriding "score"
VARIABLE failed_at

vars == <<history, turn, max_turns, ret, segs, nsteps, built, done_seen,
          failed_at>>

\* ----------------------------------------------------------------- inputs
S_hi == <<"h", "i">>
S_None == <<"N", "o", "n", "e">>
S_yes == <<"y", "e", "s">>
S_x == <<"x">>

\* step() arguments: a str, or None
Queries == {[none |-> FALSE, s |-> <<>>], [none |-> FALSE, s |-> S_hi],
            [none |-> TRUE, s |-> <<>>]}

\* str(query): str(None) is the four characters "None"
Str(q) == IF q.none THEN S_None ELSE q.s

\* i, i+1, ..., i+n-1
Run(i, n) == [k \in 1..n |-> i + k - 1]

\* results of the tokenizer on a query
TokenSeqs == {<<>>, <<1, 2>>}
\* continuations returned by _generate
GenSeqs == {<<>>, <<3, 4, 5>>}
\* outcomes of _generate: it raises, or returns a continuation
GenOutcomes == {[ok |-> FALSE, toks |-> <<>>]} \cup
               {[ok |-> TRUE, toks |-> t] : t \in GenSeqs}
\* results of tokenizer.decode on a non-empty continuation
DecodeTexts == {<<>>, S_yes, S_x}
\* tokenizer.decode(response_tensors): no tokens decode to ""
Decode(toks, choice) == IF Len(toks) = 0 THEN <<>> ELSE choice

\* ---------------------------------------------------------------- results
NoRet == [op |-> "init", err |-> "none", stage |-> "none", obs |-> <<>>,
          mask |-> <<>>, done |-> "none", text |-> <<>>, tokens |-> <<>>,
          before |-> "none", query_none |-> FALSE, val |-> <<>>]

Raised(op, err, stage) == [NoRet EXCEPT !.op = op, !.err = err, !.stage = stage]

\* ------------------------------------------------------------------ reset
\* reset() leaving self.turn as it is.
reset_keepturn(t) ==
    LET h == TextHistory(<<>>, <<>>, TRUE).h
        o == to_obs(h)
    IN [history |-> h, turn |-> t,
        ret |-> [NoRet EXCEPT !.op = "reset", !.obs = o.obs, !.mask = o.mask]]

\* TextEnvironment.reset(); t is self.turn before the call.
reset(t) ==
    LET h == TextHistory(<<>>, <<>>, TRUE).h
        o == to_obs(h)
    IN [history |-> h, turn |-> 0,
        ret |-> [NoRet EXCEPT !.op = "reset", !.obs = o.obs, !.mask = o.mask]]

\* ------------------------------------------------------------------- step
\* self.history.completed = self.turn > self.max_turns
completed_gt(t, mt) == PyBool(t > mt)

\* self.history.completed = self.turn == self.max_turns
completed_eq(t, mt) == PyBool(t = mt)

\* self.history.completed = self.turn >= self.max_turns
completed_after(t, mt) == PyBool(t >= mt)

\* step() with the turn increment placed before generate().
step_early_incr(h, t, mt, q, qtoks, gen, dec, scoreOk) ==
    LET query == Str(q)
        a1 == IF h.tokens_none THEN TextHistory(query, qtoks, FALSE)
              ELSE append_segment(h, query, qtoks)
        response_texts == Decode(gen.toks, dec)
        a2 == append_segment(a1.h, response_texts, gen.toks)
        t2 == t + 1
        h3 == [a2.h EXCEPT !.completed = completed_after(t2, mt)]
        o == to_obs(h3)
    IN IF ~a1.ok
       THEN [history |-> h, turn |-> t, appended |-> <<>>,
             ret |-> Raised("step", a1.err, "query")]
       ELSE IF ~gen.ok
       THEN [history |-> a1.h, turn |-> t2, appended |-> <<1>>,
             ret |-> Raised("step", "ServiceFailure", "generate")]
       ELSE IF ~a2.ok
       THEN [history |-> a1.h, turn |-> t2, appended |-> <<1>>,
             ret |-> Raised("step", a2.err, "response")]
       ELSE IF ~scoreOk
       THEN [history |-> a2.h, turn |-> t2, appended |-> <<1, 2>>,
             ret |-> Raised("step", "ServiceFailure", "score")]
       ELSE [history |-> h3, turn |-> t2, appended |-> <<1, 2>>,
             ret |-> [NoRet EXCEPT !.op = "step", !.obs = o.obs,
                                   !.mask = o.mask, !.done = h3.completed]]

\* step() undoing the response append when reward_fn raises.
step_score_rollback(h, t, mt, q, qtoks, gen, dec, scoreOk) ==
    LET query == Str(q)
        a1 == IF h.tokens_none THEN TextHistory(query, qtoks, FALSE)
              ELSE append_segment(h, query, qtoks)
        response_texts == Decode(gen.toks, dec)
        a2 == append_segment(a1.h, response_texts, gen.toks)
        t2 == t + 1
        h3 == [a2.h EXCEPT !.completed = completed_after(t2, mt)]
        o == to_obs(h3)
    IN IF ~a1.ok
       THEN [history |-> h, turn |-> t, appended |-> <<>>,
             ret |-> Raised("step", a1.err, "query")]
       ELSE IF ~gen.ok
       THEN [history |-> a1.h, turn |-> t, appended |-> <<1>>,
             ret |-> Raised("step", "ServiceFailure", "generate")]
       ELSE IF ~a2.ok
       THEN [history |-> a1.h, turn |-> t, appended |-> <<1>>,
             ret |-> Raised("step", a2.err, "response")]
       ELSE IF ~scoreOk
       THEN [history |-> a1.h, turn |-> t, appended |-> <<1>>,
             ret |-> Raised("step", "ServiceFailure", "score")]
       ELSE [history |-> h3, turn |-> t2, appended |-> <<1, 2>>,
             ret |-> [NoRet EXCEPT !.op = "step", !.obs = o.obs,
                                   !.mask = o.mask, !.done = h3.completed]]

\* step() not counting turns past max_turns.
step_clamp(h, t, mt, q, qtoks, gen, dec, scoreOk) ==
    LET query == Str(q)
        a1 == IF h.tokens_none THEN TextHistory(query, qtoks, FALSE)
              ELSE append_segment(h, query, qtoks)
        response_texts == Decode(gen.toks, dec)
        a2 == append_segment(a1.h, response_texts, gen.toks)
        t2 == IF t >= mt THEN t ELSE t + 1
        h3 == [a2.h EXCEPT !.completed = completed_after(t2, mt)]
        o == to_obs(h3)
    IN IF ~a1.ok
       THEN [history |-> h, turn |-> t, appended |-> <<>>,
             ret |-> Raised("step", a1.err, "query")]
       ELSE IF ~gen.ok
       THEN [history |-> a1.h, turn |-> t, appended |-> <<1>>,
             ret |-> Raised("step", "ServiceFailure", "generate")]
       ELSE IF ~a2.ok
       THEN [history |-> a1.h, turn |-> t, appended |-> <<1>>,
             ret |-> Raised("step", a2.err, "response")]
       ELSE IF ~scoreOk
       THEN [history |-> a2.h, turn |-> t, appended |-> <<1, 2>>,
             ret |-> Raised("step", "ServiceFailure", "score")]
       ELSE [history |-> h3, turn |-> t2, appended |-> <<1, 2>>,
             ret |-> [NoRet EXCEPT !.op = "step", !.obs = o.obs,
                                   !.mask = o.mask, !.done = h3.completed]]

\* TextEnvironment.step(query), generate() included.  h, t, mt are
\* self.history, self.turn and self.max_turns before the call; qtoks is the
\* tokenizer's result on str(query), gen the outcome of _generate, dec the
\* decoded continuation, scoreOk whether reward_fn returned.  ``appended``
\* lists which of the two append_segment calls (1 query, 2 response) were
\* accepted.
step(h, t, mt, q, qtoks, gen, dec, scoreOk) ==
    LET query == Str(q)
        a1 == IF h.tokens_none THEN TextHistory(query, qtoks, FALSE)
              ELSE append_segment(h, query, qtoks)
        response_texts == Decode(gen.toks, dec)
        a2 == append_segment(a1.h, response_texts, gen.toks)
        t2 == t + 1
        h3 == [a2.h EXCEPT !.completed = completed_after(t2, mt)]
        o == to_obs(h3)
    IN IF ~a1.ok
       THEN [history |-> h, turn |-> t, appended |-> <<>>,
             ret |-> Raised("step", a1.err, "query")]
       ELSE IF ~gen.ok
       THEN [history |-> a1.h, turn |-> t, appended |-> <<1>>,
             ret |-> Raised("step", "ServiceFailure", "generate")]
       ELSE IF ~a2.ok
       THEN [history |-> a1.h, turn |-> t, appended |-> <<1>>,
             ret |-> Raised("step", a2.err, "response")]
       ELSE IF ~scoreOk
       THEN [history |-> a2.h, turn |-> t, appended |-> <<1, 2>>,
             ret |-> Raised("step", "ServiceFailure", "score")]
       ELSE [history |-> h3, turn |-> t2, appended |-> <<1, 2>>,
             ret |-> [NoRet EXCEPT !.op = "step", !.obs = o.obs,
                                   !.mask = o.mask, !.done = h3.completed]]

\* ---------------------------------------------------------------- actions
\* TextEnvironment.__init__: turn = 0, history = TextHistory("", None)
Init ==
    /\ max_turns \in 1..MaxTurnsBound
    /\ turn = 0
    /\ history = TextHistory(<<>>, <<>>, TRUE).h
    /\ ret = NoRet
    /\ segs = <<>>
    /\ nsteps = 0
    /\ built = [called |-> FALSE, text |-> <<>>, tokens |-> <<>>,
                none |-> FALSE, ok |-> TRUE, h |-> EmptyHistory]
    /\ done_seen = FALSE
    /\ failed_at = "none"

\* The state of section 4.2 the environment is in, "Failed" right after a
\* step() that raised.
EnvState ==
    IF ret.op = "step" /\ ret.err # "none" THEN "Failed"
    ELSE IF turn = 0 THEN "Ready"
    ELSE IF turn < max_turns THEN "Active"
    ELSE "Done"

\* env.reset(); ret.before logs the state the call was made in
Reset ==
    LET r == reset(turn)
    IN /\ history' = r.history
       /\ turn' = r.turn
       /\ ret' = [r.ret EXCEPT !.before = EnvState]
       /\ segs' = <<>>
       /\ nsteps' = 0
       /\ done_seen' = FALSE
       /\ failed_at' = "none"
       /\ UNCHANGED <<max_turns, built>>

\* env.step(q)
Step ==
    /\ Len(history.text_spans) + 2 <= MaxSegs
    /\ \E q \in Queries, qtoks \in TokenSeqs, gen \in GenOutcomes,
          dec \in DecodeTexts, scoreOk \in BOOLEAN :
         LET r == step(history, turn, max_turns, q, qtoks, gen, dec, scoreOk)
             s1 == [text |-> Str(q), tokens |-> qtoks, by |-> "query"]
             s2 == [text |-> Decode(gen.toks, dec), tokens |-> gen.toks,
                    by |-> "response"]
         IN /\ history' = r.history
            /\ turn' = r.turn
            /\ ret' = [r.ret EXCEPT !.text = Str(q), !.tokens = qtoks,
                                    !.query_none = q.none]
            /\ segs' = segs \o [i \in 1..Len(r.appended) |->
                                  IF r.appended[i] = 1 THEN s1 ELSE s2]
            /\ nsteps' = IF r.ret.err = "none" THEN nsteps + 1 ELSE nsteps
            /\ done_seen' = (done_seen \/ r.ret.done = "True")
            /\ failed_at' =
                  IF r.ret.stage \in {"generate", "response"} THEN "generate"
                  ELSE IF r.ret.stage = "score" /\ failed_at = "none"
                  THEN "score"
                  ELSE failed_at
    /\ UNCHANGED <<max_turns, built>>

\* texts and token tensors of a direct env.history.append_segment call
AppendTexts == {<<>>, S_None}
\* the non-empty one is longer than obs_dim
AppendTokens == {<<>>, Run(1, obs_dim + 1)}

\* env.history.append_segment(text, tokens), called by the owner of env
AppendSegment ==
    /\ Len(history.text_spans) + 1 <= MaxSegs
    /\ \E text \in AppendTexts, tokens \in AppendTokens :
         LET a == append_segment(history, text, tokens)
         IN /\ history' = a.h
            /\ ret' = [NoRet EXCEPT !.op = "append", !.err = a.err,
                                    !.text = text, !.tokens = tokens]
            /\ segs' = IF a.ok
                       THEN Append(segs, [text |-> text, tokens |-> tokens,
                                          by |-> "direct"])
                       ELSE segs
    /\ UNCHANGED <<turn, max_turns, nsteps, built, done_seen, failed_at>>

\* env.history.last_text_segment, read by the owner of env
LastTextSegment ==
    /\ LET r == last_text_segment(history)
       IN ret' = [NoRet EXCEPT !.op = "last", !.err = r.err, !.val = r.val]
    /\ UNCHANGED <<history, turn, max_turns, segs, nsteps, built, done_seen,
                   failed_at>>

Next == Reset \/ Step \/ AppendSegment \/ LastTextSegment

Spec == Init /\ [][Next]_vars

\* the environment driven through reset() and step() only
NextEnv == Reset \/ Step

SpecEnv == Init /\ [][NextEnv]_vars

\* ------------------------------------------- direct TextHistory(text, tokens)
RECURSIVE SeqsUpTo(_, _)
\* all sequences over S of length 0..n
SeqsUpTo(S, n) ==
    IF n = 0 THEN {<<>>}
    ELSE LET shorter == SeqsUpTo(S, n - 1)
         IN shorter \cup {Append(t, c) : t \in shorter, c \in S}

NewTexts == SeqsUpTo({"a", "b"}, MaxNewText)
NewTokens == {Run(i, n) : i \in 1..2, n \in 0..MaxNewToks}

\* TextHistory(text, tokens) or TextHistory(text, None)
New ==
    /\ \E text \in NewTexts, tokens \in NewTokens, none \in BOOLEAN :
         /\ none => tokens = <<>>
         /\ LET r == TextHistory(text, tokens, none)
            IN built' = [called |-> TRUE, text |-> text, tokens |-> tokens,
                         none |-> none, ok |-> r.ok, h |-> r.h]
    /\ UNCHANGED <<history, turn, max_turns, ret, segs, nsteps, done_seen,
                   failed_at>>

NextNew == New

SpecNew == Init /\ [][NextNew]_vars


\* ================================================================== claims
RECURSIVE AllTokens(_)
\* the concatenation of the token sequences of the logged segments
AllTokens(ss) ==
    IF Len(ss) = 0 THEN <<>>
    ELSE AllTokens(FirstN(ss, Len(ss) - 1)) \o ss[Len(ss)].tokens

RECURSIVE TokOwners(_)
\* for every logged token, the 0-based index of the segment it came with
TokOwners(ss) ==
    IF Len(ss) = 0 THEN <<>>
    ELSE TokOwners(FirstN(ss, Len(ss) - 1)) \o
         [k \in 1..Len(ss[Len(ss)].tokens) |-> Len(ss) - 1]

\* C1: counting the step() calls that returned since reset(), the k-th
\* returns done == False for k < max_turns and the max_turns-th returns
\* done == True.
C1_DoneAtMaxTurns ==
    (ret.op = "step" /\ ret.err = "none" /\ nsteps <= max_turns)
        => ret.done = PyBool(nsteps = max_turns)

C1_Witness ==
    /\ ret.op = "step" /\ ret.err = "none"
    /\ max_turns > 1 /\ nsteps = max_turns /\ ret.done = "True"

\* C2: while no more than obs_dim tokens were appended, the mask of to_obs()
\* holds at every token position 1 if the token came with an even-indexed
\* segment and 2 if it came with an odd-indexed one.
C2_MaskTagsTokenRole ==
    LET own == TokOwners(segs)
        mask == to_obs(history).mask
    IN Len(own) <= obs_dim =>
         \A p \in 1..Len(own) : mask[p] = (IF own[p] % 2 = 0 THEN 1 ELSE 2)

\* C3: every padding position of the observation (index >= number of stored
\* tokens) has mask value 0.
C3_PaddingMaskZero ==
    LET o == to_obs(history)
    IN \A p \in (Len(history.tokens) + 1)..Len(o.obs) : o.mask[p] = 0

\* C4: to_obs() returns an observation of length exactly obs_dim and a mask
\* of the same length with entries in {0, 1, 2}; so do reset() and step().
C4_ObsShape ==
    LET o == to_obs(history)
    IN /\ Len(o.obs) = obs_dim
       /\ Len(o.mask) = Len(o.obs)
       /\ \A p \in 1..Len(o.mask) : o.mask[p] \in {0, 1, 2}
       /\ (ret.op \in {"reset", "step"} /\ ret.err = "none") =>
            /\ Len(ret.obs) = obs_dim
            /\ Len(ret.mask) = obs_dim
            /\ \A p \in 1..Len(ret.mask) : ret.mask[p] \in {0, 1, 2}

C4_Witness ==
    /\ ret.op = "step" /\ ret.err = "none"
    /\ \E i \in 1..Len(history.text_spans) :
         /\ history.text_spans[i][2] > obs_dim
         /\ i < Len(history.text_spans)
    /\ Len(AllTokens(segs)) > obs_dim

\* C5: the stored tokens are the last min(obs_dim, N) of the N tokens
\* appended so far, in their original order.
C5_TokensAreLastW ==
    LET all == AllTokens(segs)
    IN history.tokens = LastN(all, Min(obs_dim, Len(all)))

C5_Witness ==
    /\ \E i \in 1..Len(segs) : Len(segs[i].tokens) > obs_dim
    /\ Len(segs) >= 3
    /\ Len(segs[Len(segs)].tokens) < obs_dim

\* C6: a step() that fails at generation (or whose continuation is rejected
\* by the response append) leaves turn as it was and the history with one
\* more segment; one that fails at scoring leaves turn as it was and the
\* history with two more segments.
C6_FailedStepNoRollback ==
    [][/\ (ret'.op = "step" /\ ret'.stage \in {"generate", "response"}) =>
            /\ turn' = turn
            /\ Len(history'.text_spans) = Len(history.text_spans) + 1
       /\ (ret'.op = "step" /\ ret'.stage = "score") =>
            /\ turn' = turn
            /\ Len(history'.text_spans) = Len(history.text_spans) + 2]_vars

C6_Witness ==
    /\ ret.op = "step" /\ ret.stage = "generate"
    /\ turn = 1 /\ Len(history.text_spans) = 3

\* C7: append_segment with an empty text or an empty token sequence raises
\* and leaves text, text_spans and tokens as they were.
C7_RejectedAppendUnchanged ==
    [][(ret'.op = "append" /\ (Len(ret'.text) = 0 \/ Len(ret'.tokens) = 0)) =>
            /\ ret'.err = "ValueError"
            /\ history'.text = history.text
            /\ history'.text_spans = history.text_spans
            /\ history'.tokens = history.tokens]_vars

C7_Witness ==
    /\ ret.op = "append" /\ ret.err = "ValueError"
    /\ Len(ret.text) > 0 /\ Len(ret.tokens) = 0
    /\ Len(history.text_spans) > 0

\* C8: after reset() turn is 0, the history is empty and the returned
\* observation and mask are all zero; a second reset() right after leaves
\* the same state and returns the same values.
C8_ResetClears ==
    ret.op = "reset" =>
        /\ turn = 0
        /\ history.text = <<>>
        /\ history.text_spans = <<>>
        /\ history.tokens = <<>>
        /\ ret.obs = Zeros(obs_dim)
        /\ ret.mask = Zeros(obs_dim)
        /\ LET again == reset(turn)
           IN /\ again.history = history
              /\ again.turn = turn
              /\ again.ret.obs = ret.obs
              /\ again.ret.mask = ret.mask

C8_Witness == ret.op = "reset" /\ ret.before = "Done"

\* C9: right after construction and right after reset() the history's
\* completion flag is defined and False.
C9_CompletedFalseAfterReset ==
    ret.op \in {"init", "reset"} => history.completed = PyBool(FALSE)

\* C10: TextHistory(text, tokens) with a non-empty text gives the state of an
\* empty history after one append_segment(text, tokens).
C10_NewEqualsAppend ==
    (built.called /\ Len(built.text) > 0 /\ ~built.none) =>
        LET a == append_segment(EmptyHistory, built.text, built.tokens)
        IN /\ built.ok = a.ok
           /\ a.ok => /\ built.h.text = a.h.text
                      /\ built.h.text_spans = a.h.text_spans
                      /\ built.h.tokens = a.h.tokens

\* C11: step(None) raises, and turn and the history are as they were
\* before the call.
C11_NoneQueryRejected ==
    [][(ret'.op = "step" /\ ret'.query_none) =>
            /\ ret'.err # "none"
            /\ turn' = turn
            /\ history' = history]_vars

\* C12: once a step() has returned done == True, every later step() that
\* returns also returns done == True, and turn goes back to 0 (or down at
\* all) only in reset().
C12_DoneAbsorbing ==
    [][/\ (done_seen /\ ret'.op = "step" /\ ret'.err = "none") =>
            ret'.done = "True"
       /\ (turn' < turn) => (ret'.op = "reset" /\ turn' = 0)]_vars

C12_Witness ==
    /\ done_seen /\ ret.op = "step" /\ ret.err = "none"
    /\ turn > max_turns /\ ret.done = "True"

\* every logged query segment has an even index, every logged response
\* segment an odd one (0-based), the log being as long as text_spans
RolesByParity(ss, spans) ==
    /\ Len(ss) = Len(spans)
    /\ \A i \in 1..Len(ss) :
         /\ ss[i].by = "query" => (i - 1) % 2 = 0
         /\ ss[i].by = "response" => (i - 1) % 2 = 1

C14_SpansIncreasing ==
    LET spans == history.text_spans
    IN /\ Len(spans) = Len(segs)
       /\ \A i \in 1..Len(spans) : spans[i][1] < spans[i][2]
       /\ \A i \in 1..(Len(spans) - 1) : spans[i][2] <= spans[i + 1][1]

C14_Witness ==
    /\ ret.op = "append" /\ ret.err = "ValueError"
    /\ Len(history.text_spans) >= 3

\* C15: last_text_segment on a history without segments raises instead of
\* returning a value, and the history is as it was before.
C15_LastOfEmptyRaises ==
    [][ret'.op = "last" =>
            /\ history' = history
            /\ Len(history.text_spans) = 0 => ret'.err = "IndexError"]_vars

C15_Witness ==
    /\ ret.op = "last" /\ ret.err = "IndexError"
    /\ Len(history.text_spans) = 0
    /\ max_turns > 1

\* C17: last_text_segment read after an accepted append returns the text of
\* that append, the latest one, also after tokens were truncated.
C17_LastIsAppendedText ==
    (ret.op = "last" /\ Len(segs) > 0) =>
        /\ ret.err = "none"
        /\ ret.val = segs[Len(segs)].text

C17_Witness ==
    /\ ret.op = "last" /\ ret.err = "none"
    /\ Len(segs) >= 3
    /\ Len(AllTokens(segs)) > obs_dim
    /\ ret.val = S_yes

\* C16: while every step() since reset() got past generation and scoring,
\* turn is the number of step() calls that returned since reset() and the
\* history holds 2 * turn segments.
C16_TurnCountsSteps ==
    failed_at = "none" =>
        /\ turn = nsteps
        /\ Len(history.text_spans) = 2 * turn

C16_Witness ==
    /\ failed_at = "none" /\ ret.op = "step" /\ ret.err = "none"
    /\ turn = 2 /\ Len(history.text_spans) = 4

\* the service results with which step() raises nowhere
GoodQueries == {q \in Queries : Len(Str(q)) > 0}
GoodTokenSeqs == {t \in TokenSeqs : Len(t) > 0}
GoodGenOutcomes == {g \in GenOutcomes : g.ok /\ Len(g.toks) > 0}
GoodDecodeTexts == {d \in DecodeTexts : Len(d) > 0}

\* C18: in every Done state (turn >= max_turns) step() with a non-empty
\* query and working services is not rejected: it appends two segments and
\* takes turn past max_turns.
C18_StepAcceptedWhenDone ==
    turn >= max_turns =>
        \A q \in GoodQueries, qtoks \in GoodTokenSeqs,
           gen \in GoodGenOutcomes, dec \in GoodDecodeTexts :
             LET r == step(history, turn, max_turns, q, qtoks, gen, dec, TRUE)
             IN /\ r.ret.err = "none"
                /\ r.turn = turn + 1
                /\ r.turn > max_turns
                /\ Len(r.history.text_spans) = Len(history.text_spans) + 2

C18_Witness ==
    /\ ret.op = "step" /\ ret.err = "none"
    /\ turn > max_turns
    /\ Len(history.text_spans) = 2 * turn

\* C19: step() with an empty query text or an empty tokenization raises at
\* the query append, before generation, and leaves turn, text, text_spans
\* and tokens as they were.
C19_EmptyQueryRejected ==
    [][(ret'.op = "step" /\ (Len(ret'.text) = 0 \/ Len(ret'.tokens) = 0)) =>
            /\ ret'.stage = "query"
            /\ ret'.err = "ValueError"
            /\ turn' = turn
            /\ history'.text = history.text
            /\ history'.text_spans = history.text_spans
            /\ history'.tokens = history.tokens
            /\ segs' = segs]_vars

C19_Witness ==
    /\ ret.op = "step" /\ ret.stage = "query"
    /\ Len(ret.text) > 0 /\ Len(ret.tokens) = 0
    /\ turn = 1 /\ Len(history.text_spans) = 2

====
